---- MODULE Spec2Model ----
(***************************************************************************)
(* DevEvents: authorization-guarded, ownership-scoped CRUD on events and   *)
(* the booking coordinator.                                                *)
(*                                                                         *)
(* Every inbound request (route handler or server action) is a process;   *)
(* req is the bag of the requests in flight.  A step of a process runs     *)
(* up to and including one call on the document store or on the image      *)
(* store; the code before the first such call (session lookup, connectDB,  *)
(* payload parsing) touches no shared state and belongs to the first step. *)
(* Payload fields that a handler reads at one store call only are drawn    *)
(* where they are read.  A request that returns leaves req and its         *)
(* response is in resp until it is delivered.                              *)
(***************************************************************************)
EXTENDS Integers, Sequences, FiniteSets, Bags, TLC

\* ------------------------------------------------------------------ bounds
NumSlots == 2       \* requests that can be in flight together
MaxRequests == 2    \* requests started in one behaviour
MaxEvents == 2      \* Event ids the store hands out
MaxUploads == 2     \* images uploaded to the image store
MaxCreated == 3     \* Events in the store getUserCreatedEvents reads
MaxPage == 2        \* page argument of getUserCreatedEvents
MaxLimit == 2       \* limit argument of getUserCreatedEvents
MaxCalls == 4       \* connectDB and getMongoClient calls in one behaviour
MaxAttempts == 3    \* mongoose.connect calls in one behaviour

\* ------------------------------------------------------------- value sets
Users == {"u1", "u2"}
NoUser == "none"                    \* requireAuth() returned null
Sessions == Users \cup {NoUser}     \* what the session cookie resolves to
Absent == "absent"                  \* a form field the payload does not carry
Titles == {"Launch", "Hacked"}
\* the value behind formData.get("image"): nothing, a string, an empty File,
\* a non-empty File that is not an image, a non-empty image File
FileKinds == {"none", "string", "empty", "text", "image"}
NoId == 0                           \* a well-formed id that no Event ever had
MissingId == -1                     \* the request carries no id
NoImage == [folder |-> "", name |-> 0]
\* tag values; a [String] path of the schema also holds a null element
Tags == {"react", "ai"}
NullTag == "null"
TagSets == (SUBSET (Tags \cup {NullTag})) \ {{}}
\* raw e-mail inputs: already normal, needing trim + lowercase, malformed
RawEmails == {"a@x.io", " A@X.io ", "a..b@x"}

VARIABLES
  events,       \* Event collection: id -> [creatorId, title, image]
  bookings,     \* Booking collection, in insertion order: <<[eventId, email]>>
  uniqueIndex,  \* whether the deployment has a unique index on (eventId, email)
  images,       \* public ids present in the external image store
  nextId,       \* next Event id the store assigns
  nextImg,      \* next public-id name the image store assigns
  req,          \* the requests in flight, a bag of request records
  started,      \* requests started so far
  resp,         \* the response on its way to the client, IdleReq when none
  called,       \* (eventId, email) pairs createBooking was called with so far
  firstResult,  \* how the first call for a pair returned: <<eventId, email, how>>
  succeeded,    \* eventId -> createBooking calls that returned success for it
  \* the connection manager (lib/mongodb.ts)
  cache,        \* mongooseCache: [conn, promise]
  attempts,     \* the mongoose.connect calls so far, each pending, ok or failed
  jobs,         \* the microtask queue: connectDB entries and resumptions
  waiters,      \* callers awaiting a pending promise, in order of arrival
  calls,        \* the connectDB and getMongoClient calls so far
  clients       \* the store clients (connection pools) the process has opened

\* the connection manager's state
dbvars == <<cache, attempts, jobs, waiters, calls, clients>>

\* the collections, the image store and the requests
appvars == <<events, bookings, uniqueIndex, images, nextId, nextImg, req, resp,
            started, called, firstResult, succeeded>>

vars == <<events, bookings, uniqueIndex, images, nextId, nextImg, req, resp,
          started, called, firstResult, succeeded, dbvars>>

\* ---------------------------------------------------------------- helpers
\* BookingSchema.email: trim + lowercase setters, applied on save and on
\* query filters alike.
Normalize(email) ==
  CASE email = "a@x.io" -> "a@x.io"
    [] email = " A@X.io " -> "a@x.io"
    [] OTHER -> email

\* BookingSchema.email validator: /^[^\s@.][^\s@]*@[^\s@.]+\.[^\s@.]{2,}$/
\* and no "..".
ValidEmail(email) ==
  CASE email = "a@x.io" -> TRUE
    [] email = " A@X.io " -> FALSE     \* white space
    [] email = "a..b@x" -> FALSE       \* consecutive dots, no tld
    [] OTHER -> FALSE

\* requireAuth: the session user, or null when the session has no user id
requireAuth(session) == IF session = NoUser THEN NoUser ELSE session

IdleReq ==
  [kind |-> "idle", pc |-> "idle", user |-> NoUser, id |-> NoId,
   file |-> "none", email |-> "", old |-> NoImage, new |-> NoImage,
   status |-> 0, res |-> "",
   count |-> 0,         \* the number a count call returned
   list |-> <<>>,       \* the Event ids a listing call returned, in order
   page |-> 0,          \* the page and the limit a listing call was given
   limit |-> 0,
   pages |-> 0,         \* the totalPages a listing call returned
   \* what the request observed and did, kept for the response's properties
   seen1 |-> "",        \* what its first store call met
   seen2 |-> "",        \* what its second store call met
   claimed |-> "",      \* the creatorId field its payload carried
   fx |-> {},           \* its effects: upload, write, destroy, insert
   fault |-> FALSE,     \* the store or the image store failed under it
   \* createBooking: its place among the calls with the same arguments
   first |-> FALSE,     \* no call with these arguments started before it
   raced |-> FALSE,     \* a call with these arguments ran alongside it
   after |-> ""]        \* how the first such call had returned when it started

\* request q returns: the response, with what the request observed and did
Done(q, status, res) ==
  [q EXCEPT !.pc = "done", !.status = status, !.res = res]

InFlight == BagToSet(req)
\* the response of a step that moves a request to q
Response(q) == IF q.pc = "done" THEN q ELSE IdleReq
\* a request arrives and runs to q: it stays in flight unless it returned
Enter(q) ==
  /\ req' = IF q.pc = "done" THEN req ELSE req (+) SetToBag({q})
  /\ resp' = Response(q)
\* the request in flight as r moves on to q
Step(r, q) ==
  /\ req' = IF q.pc = "done" THEN req (-) SetToBag({r})
            ELSE (req (-) SetToBag({r})) (+) SetToBag({q})
  /\ resp' = Response(q)
\* no response is on its way: the server takes its next step
Ready == resp = IdleReq
\* the server accepts a new request
CanStart ==
  Ready /\ BagCardinality(req) < NumSlots /\ started < MaxRequests
\* ids a client can name: the ids handed out so far, and one that never was
KnownIds == 0..(nextId - 1)
Exists(id) == id \in DOMAIN events
\* what a read of the Event with this id shows, to a caller with this user id
Observe(id, user) ==
  IF ~Exists(id) THEN "absent"
  ELSE IF events[id].creatorId = user THEN "own" ELSE "foreign"

\* the store after user u1 has created one Event through POST
\* lib/mongodb.ts at module load: global.mongoose = {conn: null, promise:
\* null}; nothing has connected
NoConn == "null"
InitDb ==
  /\ cache = [conn |-> NoConn, promise |-> 0]
  /\ attempts = <<>>
  /\ jobs = <<>>
  /\ waiters = <<>>
  /\ calls = <<>>
  /\ clients = {}

Init ==
  /\ events = (1 :> [creatorId |-> "u1", title |-> "Launch",
                     image |-> [folder |-> "Dev Event Platform", name |-> 1]])
  /\ bookings = <<>>
  /\ uniqueIndex \in BOOLEAN
  /\ images = {[folder |-> "Dev Event Platform", name |-> 1]}
  /\ nextId = 2
  /\ nextImg = 2
  /\ req = EmptyBag
  /\ resp = IdleReq
  /\ started = 0
  /\ called = {}
  /\ firstResult = {}
  /\ succeeded = [e \in 0..MaxEvents |-> 0]
  /\ InitDb

\* ------------------------------------------------------- createBooking
\* the (eventId, email) a call is about, as the store compares it
Pair(q) == <<q.id, Normalize(q.email)>>

\* a lookup that compares the e-mail as the caller typed it
FindBookingRaw(eventId, email) ==
  \E i \in 1..Len(bookings) :
    bookings[i] = [eventId |-> eventId, email |-> email]
\* Booking.findOne({eventId, email}): the filter is cast through the schema
FindBooking(eventId, email) ==
  \E i \in 1..Len(bookings) :
    bookings[i] = [eventId |-> eventId, email |-> Normalize(email)]

\* how the first call for a pair returned, "" while it has not
After(p) ==
  IF \E t \in firstResult : t[1] = p[1] /\ t[2] = p[2]
  THEN (CHOOSE t \in firstResult : t[1] = p[1] /\ t[2] = p[2])[3]
  ELSE ""

\* firstResult once call q has returned res
Returned(q, res) ==
  IF q.first
  THEN firstResult \cup
         {<<q.id, Normalize(q.email),
            IF q.fault THEN "fault" ELSE IF q.raced THEN "raced" ELSE res>>}
  ELSE firstResult

\* the requests in flight, with the calls about pair p marked as having had
\* company
MarkRaced(p) ==
  LET mark(q) == IF q.kind = "BOOK" /\ Pair(q) = p
                 THEN [q EXCEPT !.raced = TRUE] ELSE q
      marked == {mark(q) : q \in InFlight}
  IN [m \in marked |->
        LET u == [m EXCEPT !.raced = FALSE]
        IN  (IF m \in InFlight THEN req[m] ELSE 0)
              + (IF u # m /\ u \in InFlight /\ mark(u) = m THEN req[u] ELSE 0)]

\* createBooking up to its first store query: requireAuth, connectDB,
\* const existingBooking = await Booking.findOne({ eventId, email })
BookingFindOne ==
  /\ CanStart
  /\ \E session \in Sessions, eventId \in KnownIds, email \in RawEmails,
        dbOk \in BOOLEAN :
       LET user == requireAuth(session)
           p == <<eventId, Normalize(email)>>
           q == [IdleReq EXCEPT !.kind = "BOOK", !.user = user,
                   !.id = eventId, !.email = email]
           qa == [q EXCEPT !.first = (p \notin called),
                    !.raced = (\E s \in InFlight :
                                 s.kind = "BOOK" /\ Pair(s) = p),
                    !.after = After(p), !.fault = ~dbOk]
       IN IF user = NoUser
          THEN /\ Enter(Done(q, 0, "requiresAuth"))
               /\ UNCHANGED <<called, firstResult>>
          ELSE /\ called' = called \cup {p}
               /\ IF ~dbOk
                  THEN /\ Enter(Done(qa, 0, "failed"))
                       /\ firstResult' = Returned(qa, "failed")
                  ELSE IF FindBooking(eventId, email)
                  THEN /\ Enter(Done(qa, 0, "already"))
                       /\ firstResult' = Returned(qa, "already")
                  ELSE /\ req' = MarkRaced(p)
                                   (+) SetToBag({[qa EXCEPT !.pc = "presave"]})
                       /\ resp' = IdleReq
                       /\ UNCHANGED firstResult
  /\ started' = started + 1
  /\ UNCHANGED <<events, bookings, uniqueIndex, images, nextId, nextImg,
                 succeeded, dbvars>>

\* a hook that lets the save go on when its query did not answer
PreSaveAssumesValid(eventId, answered) ==
  IF ~answered THEN "present"
  ELSE IF Exists(eventId) THEN "present" ELSE "absent"
\* BookingSchema.pre("save"): Event.countDocuments({_id}).maxTimeMS(500);
\* a count of 0 and a query that times out or rejects both end in
\* next(new Error(...))
PreSave(eventId, answered) ==
  IF ~answered THEN "error"
  ELSE IF Exists(eventId) THEN "present" ELSE "absent"

\* Booking.create, before the insert: schema validation, then the pre-save
\* hook, whose query can time out
BookingPreSave(r) ==
  /\ Ready
  /\ r.kind = "BOOK" /\ r.pc = "presave"
  /\ \E answered \in BOOLEAN :
       LET q == IF ~ValidEmail(Normalize(r.email)) THEN r
                ELSE [r EXCEPT !.fault = ~answered,
                               !.seen1 = PreSave(r.id, answered)]
       IN IF q.seen1 = "present"
          THEN /\ Step(r, [q EXCEPT !.pc = "insert"])
               /\ UNCHANGED firstResult
          ELSE /\ Step(r, Done(q, 0, "failed"))
               /\ firstResult' = Returned(q, "failed")
  /\ UNCHANGED <<events, bookings, uniqueIndex, images, nextId, nextImg,
                 started, called, succeeded, dbvars>>

\* Booking.create, the insert; then revalidatePath and the success result.
\* A store that has the unique index rejects a second (eventId, email); the
\* catch block answers every rejection.
BookingInsert(r) ==
  /\ Ready
  /\ r.kind = "BOOK" /\ r.pc = "insert"
  /\ IF uniqueIndex /\ FindBooking(r.id, r.email)
     THEN /\ Step(r, Done([r EXCEPT !.seen2 = "duplicate"], 0, "failed"))
          /\ firstResult' = Returned(r, "failed")
          /\ UNCHANGED <<bookings, succeeded>>
     ELSE /\ bookings' = Append(bookings,
                [eventId |-> r.id, email |-> Normalize(r.email)])
          /\ Step(r, Done([r EXCEPT !.fx = {"insert"}], 0, "success"))
          /\ firstResult' = Returned(r, "success")
          /\ succeeded' = [succeeded EXCEPT ![r.id] = @ + 1]
  /\ UNCHANGED <<events, uniqueIndex, images, nextId, nextImg, started,
                 called, dbvars>>

\* ----------------------------------------------------- getBookingCount
\* a count that ignores its filter
CountDocumentsUnfiltered(eventId) == Len(bookings)
\* this.countDocuments({ eventId })
CountDocuments(eventId) ==
  Cardinality({i \in 1..Len(bookings) : bookings[i].eventId = eventId})

\* BookingSchema.statics.getBookingCountByEventId: the count, 0 when the
\* query rejects
getBookingCountByEventId(eventId, queryOk) ==
  IF queryOk THEN CountDocuments(eventId) ELSE 0

\* getBookingCount without its try/catch
getBookingCountUncaught(eventId, dbOk, queryOk) ==
  IF ~dbOk THEN [threw |-> TRUE, count |-> 0]
  ELSE [threw |-> FALSE, count |-> getBookingCountByEventId(eventId, queryOk)]
\* getBookingCount: connectDB, the static, 0 from the catch block
getBookingCount(eventId, dbOk, queryOk) ==
  IF ~dbOk THEN [threw |-> FALSE, count |-> 0]
  ELSE [threw |-> FALSE, count |-> getBookingCountByEventId(eventId, queryOk)]

\* a call of getBookingCount; it awaits one store query and holds no state
\* of its own across it
GetBookingCount ==
  /\ Ready
  /\ \E eventId \in KnownIds, dbOk \in BOOLEAN, queryOk \in BOOLEAN :
       LET out == getBookingCount(eventId, dbOk, queryOk)
       IN resp' = [IdleReq EXCEPT !.kind = "COUNT", !.pc = "done",
                     !.id = eventId, !.fault = ~(dbOk /\ queryOk),
                     !.res = IF out.threw THEN "threw" ELSE "",
                     !.count = out.count]
  /\ UNCHANGED <<events, bookings, uniqueIndex, images, nextId, nextImg, req,
                 started, called, firstResult, succeeded, dbvars>>

\* a catch block that asks the caller to sign in
BookingResultAuthOnFailure(res) ==
  [success |-> (res = "success"),
   message |-> res,
   requiresAuth |-> (res \in {"requiresAuth", "failed"})]
\* the {success, message, requiresAuth} triple of a createBooking result
BookingResult(res) ==
  [success |-> (res = "success"),
   message |-> CASE res = "requiresAuth" -> "Please sign in to book an event"
                 [] res = "already" -> "You have already booked this event"
                 [] res = "success" -> "Booking successful!"
                 [] OTHER -> "Failed to create booking. Please try again.",
   requiresAuth |-> (res = "requiresAuth")]

\* ------------------------------------------------- /api/events handlers
\* a handler that lets every caller through
UnauthenticatedNever(user) == FALSE
\* if (!user) return 401
Unauthenticated(user) == user = NoUser

\* the image store: upload stores the image under folder/name and answers
\* its URL, which ends in <folder>/<name>.<ext>
UploadedUrl(folder) == [folder |-> folder, name |-> nextImg]
\* DELETE: deletedEvent.image.split("/").pop()?.split(".")[0]
DeletePublicId(url) == [folder |-> "", name |-> url.name]
\* PUT: `events/${filename.split(".")[0]}`
UpdatePublicId(url) == [folder |-> "events", name |-> url.name]
\* cloudinary.uploader.destroy(publicId): removes the image with that id
Destroy(publicId) == images \ {publicId}

\* the document POST hands to Event.create, with the payload's creatorId
\* field surviving the spread
CreateDocPayloadWins(title, payloadCreator, image, userId) ==
  [creatorId |-> IF payloadCreator = Absent THEN userId ELSE payloadCreator,
   title |-> title, image |-> image]
\* the document POST hands to Event.create:
\* {...event, tags, agenda, creatorId: user.id}
CreateDoc(title, payloadCreator, image, userId) ==
  [creatorId |-> userId, title |-> title, image |-> image]

\* a store filter {_id: id, creatorId: userId}
OwnedBy(id, userId) == Exists(id) /\ events[id].creatorId = userId
\* a read filtered by {_id: id} alone
FindOneFilterIdOnly(id, userId) == Exists(id)
\* PUT: Event.findOne({_id: id, creatorId: user.id})
FindOneFilter(id, userId) == OwnedBy(id, userId)
\* an update filtered by {_id: id} alone
UpdateFilterIdOnly(id, userId) == Exists(id)
\* PUT: Event.findOneAndUpdate({_id: id, creatorId: user.id}, ...)
UpdateFilter(id, userId) == OwnedBy(id, userId)
\* a delete filtered by {_id: id} alone
DeleteFilterIdOnly(id, userId) == Exists(id)
\* DELETE: Event.findOneAndDelete({_id: id, creatorId: user.id})
DeleteFilter(id, userId) == OwnedBy(id, userId)

\* PUT: file && file.size > 0 && file.type.startsWith("image/")
IsNewImage(file) == file = "image"
\* PUT: file && file.size > 0 && existingEvent.image &&
\* existingEvent.image.includes("cloudinary")
CleansOldImage(file, old) == file \in {"text", "image"} /\ old # NoImage

\* an update document that keeps the image entry of the form
ApplyUpdateWithPayloadImage(doc, title, payloadCreator, new) ==
  [creatorId |-> IF payloadCreator = Absent THEN doc.creatorId
                 ELSE payloadCreator,
   title |-> IF title = Absent THEN doc.title ELSE title,
   image |-> new]
\* the update document of PUT: the form entries a schema path takes ($set),
\* image only when a new one was uploaded
ApplyUpdate(doc, title, payloadCreator, new) ==
  [creatorId |-> IF payloadCreator = Absent THEN doc.creatorId
                 ELSE payloadCreator,
   title |-> IF title = Absent THEN doc.title ELSE title,
   image |-> IF new = NoImage THEN doc.image ELSE new]

Remove(id) == [i \in (DOMAIN events) \ {id} |-> events[i]]

\* a request of one of the three mutating handlers, up to its first store
\* or image-store call: requireAuth, connectDB, the payload
StartHttp(kind, session, id, file, dbOk, parses) ==
  LET user == requireAuth(session)
      q == [IdleReq EXCEPT !.kind = kind, !.user = user]
      qp == [q EXCEPT !.id = id, !.file = file]
  IN  IF Unauthenticated(user) THEN Done(q, 401, "")
      ELSE IF ~dbOk THEN Done([q EXCEPT !.fault = TRUE], 500, "")
      ELSE IF kind = "POST" /\ file = "none" THEN Done(qp, 400, "")
      ELSE IF kind = "POST" /\ ~parses THEN Done(qp, 500, "")
      ELSE IF kind = "DELETE" /\ id = MissingId THEN Done(qp, 400, "")
      ELSE [qp EXCEPT !.pc = "go"]

\* an upload whose error is dropped
UploadResolvesAlways(file, ok) == TRUE
\* POST: the upload_stream callback rejects on error and resolves on a
\* result; a string in the image field has no arrayBuffer and throws
UploadResolves(file, ok) == ok /\ file # "string"

\* POST up to its first outside call: the image field, JSON.parse of tags
\* and agenda, file.arrayBuffer() and cloudinary upload_stream into folder
\* "Dev Event Platform"; a string has no arrayBuffer, an upload can fail
PostUpload ==
  /\ CanStart
  /\ \E session \in Sessions, file \in FileKinds, dbOk \in BOOLEAN,
        parses \in BOOLEAN, ok \in BOOLEAN :
       LET q == StartHttp("POST", session, NoId, file, dbOk, parses)
       IN IF q.pc = "done"
          THEN /\ Enter(q)
               /\ UNCHANGED <<images, nextImg>>
          ELSE IF UploadResolves(file, ok)
          THEN /\ nextImg <= MaxUploads
               /\ images' = images \cup {UploadedUrl("Dev Event Platform")}
               /\ nextImg' = nextImg + 1
               /\ Enter([q EXCEPT !.pc = "create",
                           !.new = UploadedUrl("Dev Event Platform"),
                           !.fault = ~(ok /\ file # "string"),
                           !.fx = @ \cup {"upload"}])
          ELSE /\ Enter(Done([q EXCEPT !.fault = TRUE], 500, ""))
               /\ UNCHANGED <<images, nextImg>>
  /\ started' = started + 1
  /\ UNCHANGED <<events, bookings, uniqueIndex, nextId, called, firstResult,
                 succeeded, dbvars>>

\* EventSchema.pre("save"): this.slug = this.title.toLowerCase().trim()
\* with special characters removed and spaces turned into hyphens; nothing
\* is appended to it
Slugify(title) ==
  CASE title = "Launch" -> "launch"
    [] title = "Hacked" -> "hacked"
    [] OTHER -> ""
\* slug: { unique: true }: the store rejects a second document with the slug
SlugTaken(slug) == \E id \in DOMAIN events : Slugify(events[id].title) = slug

\* POST: Event.create; a document the schema rejects (a required field
\* missing or empty after trimming, empty tags or agenda, an eventStartAt
\* that is no date) throws a ValidationError, a slug the store holds already
\* throws a duplicate key error, and both end in the catch block
PostCreate(r) ==
  /\ Ready
  /\ r.kind = "POST" /\ r.pc = "create"
  /\ \E title \in Titles, payloadCreator \in Users \cup {Absent},
        valid \in BOOLEAN :
       IF valid /\ SlugTaken(Slugify(title))
       THEN /\ Step(r, Done([r EXCEPT !.seen1 = "slugTaken"], 500, ""))
            /\ UNCHANGED <<events, nextId>>
       ELSE IF valid
       THEN /\ nextId <= MaxEvents
            /\ events' = events @@
                 (nextId :> CreateDoc(title, payloadCreator, r.new, r.user))
            /\ nextId' = nextId + 1
            /\ Step(r, Done([r EXCEPT !.fx = @ \cup {"write"},
                                     !.claimed = payloadCreator], 201, ""))
       ELSE /\ Step(r, Done([r EXCEPT !.seen1 = "invalid"], 500, ""))
            /\ UNCHANGED <<events, nextId>>
  /\ UNCHANGED <<bookings, uniqueIndex, images, nextImg, started, called,
                 firstResult, succeeded, dbvars>>

\* DELETE up to its first store call: the id of the body, then
\* Event.findOneAndDelete({_id: id, creatorId: user.id})
DeleteFindOneAndDelete ==
  /\ CanStart
  /\ \E session \in Sessions, id \in KnownIds \cup {MissingId},
        dbOk \in BOOLEAN :
       LET q0 == StartHttp("DELETE", session, id, "none", dbOk, TRUE)
           q == [q0 EXCEPT !.seen1 = Observe(id, q0.user)]
       IN IF q0.pc = "done"
          THEN /\ Enter(q0)
               /\ UNCHANGED events
          ELSE IF DeleteFilter(id, q0.user)
          THEN /\ events' = Remove(id)
               /\ Enter([q EXCEPT !.pc = "destroy",
                           !.old = events[id].image,
                           !.fx = @ \cup {"write"}])
          ELSE /\ Enter([q EXCEPT !.pc = "findById"])
               /\ UNCHANGED events
  /\ started' = started + 1
  /\ UNCHANGED <<bookings, uniqueIndex, images, nextId, nextImg, called,
                 firstResult, succeeded, dbvars>>

\* DELETE and PUT, when the owner-filtered call matched nothing:
\* Event.findById(id) tells 404 from 403
FindById(r) ==
  /\ Ready
  /\ r.kind \in {"DELETE", "PUT"} /\ r.pc = "findById"
  /\ LET q == [r EXCEPT !.seen2 = Observe(r.id, r.user)]
     IN Step(r, IF Exists(r.id) THEN Done(q, 403, "")
                ELSE Done(q, 404, ""))
  /\ UNCHANGED <<events, bookings, uniqueIndex, images, nextId, nextImg,
                 started, called, firstResult, succeeded, dbvars>>

\* DELETE: await cloudinary.uploader.destroy(publicId), inside the try; a
\* rejected destroy ends in the catch block
DeleteDestroy(r) ==
  /\ Ready
  /\ r.kind = "DELETE" /\ r.pc = "destroy"
  /\ \E ok \in BOOLEAN :
       IF ok
       THEN /\ images' = Destroy(DeletePublicId(r.old))
            /\ Step(r, Done([r EXCEPT !.fx = @ \cup {"destroy"}],
                            200, ""))
       ELSE /\ Step(r, Done([r EXCEPT !.fault = TRUE], 500, ""))
            /\ UNCHANGED images
  /\ UNCHANGED <<events, bookings, uniqueIndex, nextId, nextImg, started,
                 called, firstResult, succeeded, dbvars>>

\* PUT up to its first store call: formData (id, image), then
\* existingEvent = Event.findOne({_id: id, creatorId: user.id}).lean()
PutFindOne ==
  /\ CanStart
  /\ \E session \in Sessions, id \in KnownIds, file \in FileKinds,
        dbOk \in BOOLEAN :
       LET q0 == StartHttp("PUT", session, id, file, dbOk, TRUE)
           q == [q0 EXCEPT !.seen1 = Observe(id, q0.user)]
       IN Enter(IF q0.pc = "done" THEN q0
                ELSE IF FindOneFilter(id, q0.user)
                THEN [q EXCEPT !.old = events[id].image,
                        !.pc = IF IsNewImage(file) THEN "upload"
                               ELSE "update"]
                ELSE [q EXCEPT !.pc = "findById"])
  /\ started' = started + 1
  /\ UNCHANGED <<events, bookings, uniqueIndex, images, nextId, nextImg,
                 called, firstResult, succeeded, dbvars>>

\* PUT: cloudinary.uploader.upload(base64, {folder: "events"})
PutUpload(r) ==
  /\ Ready
  /\ r.kind = "PUT" /\ r.pc = "upload"
  /\ \E ok \in BOOLEAN :
       IF ok
       THEN /\ nextImg <= MaxUploads
            /\ images' = images \cup {UploadedUrl("events")}
            /\ nextImg' = nextImg + 1
            /\ Step(r, [r EXCEPT !.pc = "update",
                          !.new = UploadedUrl("events"),
                          !.fx = @ \cup {"upload"}])
       ELSE /\ Step(r, Done([r EXCEPT !.fault = TRUE], 500, ""))
            /\ UNCHANGED <<images, nextImg>>
  /\ UNCHANGED <<events, bookings, uniqueIndex, nextId, started, called,
                 firstResult, succeeded, dbvars>>

\* PUT: Event.findOneAndUpdate({_id: id, creatorId: user.id}, data,
\* {new: true, runValidators: true}), whose result is not inspected; then
\* the old image's destroy is issued when the condition asks for it, and the
\* response is returned without awaiting it: what stays in flight is the
\* destroy, which holds the old image's URL only
PutUpdate(r) ==
  /\ Ready
  /\ r.kind = "PUT" /\ r.pc = "update"
  /\ \E title \in Titles \cup {Absent}, payloadCreator \in Users \cup {Absent},
        valid \in BOOLEAN :
       LET id == r.id
           matched == UpdateFilter(id, r.user)
           q == IF matched
                THEN [r EXCEPT !.fx = @ \cup {"write"},
                               !.claimed = payloadCreator]
                ELSE r
       IN IF ~valid
          THEN /\ Step(r, Done(r, 500, ""))
               /\ UNCHANGED events
          ELSE /\ events' = IF matched
                            THEN [events EXCEPT ![id] =
                                    ApplyUpdate(@, title, payloadCreator,
                                                r.new)]
                            ELSE events
               /\ resp' = Done(q, 200, "")
               /\ req' = (req (-) SetToBag({r})) (+)
                    (IF CleansOldImage(r.file, r.old)
                     THEN SetToBag({[IdleReq EXCEPT !.kind = "PUT",
                                       !.pc = "destroyOld", !.old = r.old,
                                       !.fx = q.fx \cap {"write"}]})
                     ELSE EmptyBag)
  /\ UNCHANGED <<bookings, uniqueIndex, images, nextId, nextImg, started,
                 called, firstResult, succeeded, dbvars>>

\* PUT: cloudinary.uploader.destroy(publicId).catch(warn), not awaited: the
\* destroy lands, or fails with a warning, after the response
PutDestroyOld(r) ==
  /\ Ready
  /\ r.kind = "PUT" /\ r.pc = "destroyOld"
  /\ \E ok \in BOOLEAN :
       images' = IF ok THEN Destroy(UpdatePublicId(r.old)) ELSE images
  /\ req' = req (-) SetToBag({r})
  /\ resp' = IdleReq
  /\ UNCHANGED <<events, bookings, uniqueIndex, nextId, nextImg, started,
                 called, firstResult, succeeded, dbvars>>

\* the response leaves the server
Deliver ==
  /\ resp # IdleReq
  /\ resp' = IdleReq
  /\ UNCHANGED <<events, bookings, uniqueIndex, images, nextId, nextImg, req,
                 started, called, firstResult, succeeded, dbvars>>

\* the three mutating handlers of /api/events
NextEvents ==
  \/ PostUpload
  \/ DeleteFindOneAndDelete
  \/ PutFindOne
  \/ \E r \in InFlight : PostCreate(r)
  \/ \E r \in InFlight : FindById(r)
  \/ \E r \in InFlight : DeleteDestroy(r)
  \/ \E r \in InFlight : PutUpload(r)
  \/ \E r \in InFlight : PutUpdate(r)
  \/ \E r \in InFlight : PutDestroyOld(r)
  \/ Deliver

Spec == Init /\ [][NextEvents]_vars

\* the store after user u1 has created one Event through POST and replaced
\* its image through PUT: the image is the one PUT uploaded
InitEdited ==
  /\ events = (1 :> [creatorId |-> "u1", title |-> "Launch",
                     image |-> [folder |-> "events", name |-> 1]])
  /\ bookings = <<>>
  /\ uniqueIndex \in BOOLEAN
  /\ images = {[folder |-> "events", name |-> 1]}
  /\ nextId = 2
  /\ nextImg = 2
  /\ req = EmptyBag
  /\ resp = IdleReq
  /\ started = 0
  /\ called = {}
  /\ firstResult = {}
  /\ succeeded = [e \in 0..MaxEvents |-> 0]
  /\ InitDb

SpecEdited == InitEdited /\ [][NextEvents]_vars

\* ------------------------------------------- actions/createEvent (form)
\* the document createEventAction hands to Event.create: the form's fields
\* and the path of the image written under public/uploads/events; it has no
\* creatorId entry
ActionDoc(title) ==
  [creatorId |-> Absent, title |-> title,
   image |-> [folder |-> "/uploads/events", name |-> nextId]]

\* createEventAction: the form's fields are validated, then connectDB,
\* uploadImage and Event.create; the session is never read. An Event schema
\* whose creatorId path is required rejects the document, the schema of
\* event.model.ts, which declares no creatorId path, accepts it.
CreateEventAction ==
  /\ CanStart
  /\ \E session \in Sessions, title \in Titles, formOk \in BOOLEAN,
        dbOk \in BOOLEAN, uploadOk \in BOOLEAN, creatorRequired \in BOOLEAN :
       LET q == [IdleReq EXCEPT !.kind = "ACTION", !.pc = "done",
                   !.user = requireAuth(session)]
       IN IF ~formOk
          THEN /\ resp' = [q EXCEPT !.res = "invalid"]
               /\ UNCHANGED <<events, nextId>>
          ELSE IF ~dbOk \/ ~uploadOk
          THEN /\ resp' = [q EXCEPT !.res = "failed", !.fault = TRUE]
               /\ UNCHANGED <<events, nextId>>
          ELSE IF creatorRequired
          THEN /\ resp' = [q EXCEPT !.res = "failed", !.seen1 = "invalid"]
               /\ UNCHANGED <<events, nextId>>
          ELSE IF SlugTaken(Slugify(title))
          THEN /\ resp' = [q EXCEPT !.res = "failed", !.seen1 = "slugTaken"]
               /\ UNCHANGED <<events, nextId>>
          ELSE /\ nextId <= MaxEvents
               /\ events' = events @@ (nextId :> ActionDoc(title))
               /\ nextId' = nextId + 1
               /\ resp' = [q EXCEPT !.res = "success", !.id = nextId,
                                    !.fx = {"write"}]
  /\ started' = started + 1
  /\ UNCHANGED <<bookings, uniqueIndex, images, nextImg, req, called,
                 firstResult, succeeded, dbvars>>

\* the two ways to create an Event
NextCreate ==
  \/ PostUpload
  \/ CreateEventAction
  \/ \E r \in InFlight : PostCreate(r)
  \/ Deliver

SpecCreate == Init /\ [][NextCreate]_vars

\* the store once user u1 has created MaxEvents Events through POST
InitBooking ==
  /\ events = [i \in 1..MaxEvents |->
                 [creatorId |-> "u1", title |-> "Launch",
                  image |-> [folder |-> "Dev Event Platform", name |-> i]]]
  /\ bookings = <<>>
  /\ uniqueIndex \in BOOLEAN
  /\ images = {[folder |-> "Dev Event Platform", name |-> i] :
                 i \in 1..MaxEvents}
  /\ nextId = MaxEvents + 1
  /\ nextImg = MaxEvents + 1
  /\ req = EmptyBag
  /\ resp = IdleReq
  /\ started = 0
  /\ called = {}
  /\ firstResult = {}
  /\ succeeded = [e \in 0..MaxEvents |-> 0]
  /\ InitDb

\* ------------------------------------------------ event.actions (reads)
\* the ids of S in ascending order: the store's natural order
RECURSIVE Ascending(_)
Ascending(S) ==
  IF S = {} THEN <<>>
  ELSE LET m == CHOOSE x \in S : \A y \in S : x <= y
       IN <<m>> \o Ascending(S \ {m})

\* Event.findOne({ slug }): the id of the Event, NoId for null
FindOneBySlug(slug) ==
  IF \E id \in DOMAIN events : events[id].slug = slug
  THEN CHOOSE id \in DOMAIN events : events[id].slug = slug
  ELSE NoId

\* Event.find({_id: {$ne: event?._id}, tags: {$in: event?.tags}}): with a
\* null event both operands are undefined, which reach the store as null:
\* every _id differs from null and $in [null] matches a null element
FindSimilar(id) ==
  IF id = NoId
  THEN {o \in DOMAIN events : NullTag \in events[o].tags}
  ELSE {o \in DOMAIN events :
          o # id /\ events[o].tags \cap events[id].tags # {}}

\* getSimilarEventsBySlug: connectDB, findOne, find, [] from the catch block
getSimilarEventsBySlug(slug, dbOk, findOneOk, findOk) ==
  IF dbOk /\ findOneOk /\ findOk
  THEN Ascending(FindSimilar(FindOneBySlug(slug)))
  ELSE <<>>

\* a call of getSimilarEventsBySlug; slug 0 is the slug of no Event
GetSimilarEventsBySlug ==
  /\ Ready
  /\ \E slug \in 0..MaxEvents, dbOk \in BOOLEAN, findOneOk \in BOOLEAN,
        findOk \in BOOLEAN :
       resp' = [IdleReq EXCEPT !.kind = "SIMILAR", !.pc = "done",
                  !.id = slug,
                  !.fault = ~(dbOk /\ findOneOk /\ findOk),
                  !.seen1 = IF FindOneBySlug(slug) = NoId THEN "absent"
                            ELSE "present",
                  !.list = getSimilarEventsBySlug(slug, dbOk, findOneOk,
                                                  findOk)]
  /\ UNCHANGED <<events, bookings, uniqueIndex, images, nextId, nextImg, req,
                 started, called, firstResult, succeeded, dbvars>>

\* a store the handlers can have built: any of the Events 1..MaxEvents, each
\* with its own slug, any creator and any non-empty tags
InitRead ==
  /\ \E S \in SUBSET (1..MaxEvents) :
       \E creator \in [S -> Users], tags \in [S -> TagSets] :
         events = [i \in S |->
                     [creatorId |-> creator[i], title |-> "Launch",
                      image |-> [folder |-> "Dev Event Platform", name |-> i],
                      slug |-> i, tags |-> tags[i]]]
  /\ bookings = <<>>
  /\ uniqueIndex = FALSE
  /\ images = {[folder |-> "Dev Event Platform", name |-> i] :
                 i \in 1..MaxEvents}
  /\ nextId = MaxEvents + 1
  /\ nextImg = MaxEvents + 1
  /\ req = EmptyBag
  /\ resp = IdleReq
  /\ started = 0
  /\ called = {}
  /\ firstResult = {}
  /\ succeeded = [e \in 0..MaxEvents |-> 0]
  /\ InitDb

\* the read-only server actions of event.actions
NextRead ==
  \/ GetSimilarEventsBySlug
  \/ Deliver

SpecRead == InitRead /\ [][NextRead]_vars

\* a filter that matches every Event
CreatedByAnyone(user) == DOMAIN events
\* the filter { creatorId: user.id }
CreatedBy(user) == {id \in DOMAIN events : events[id].creatorId = user}

\* .sort({ createdAt: -1 })
RECURSIVE NewestFirst(_)
NewestFirst(S) ==
  IF S = {} THEN <<>>
  ELSE LET m == CHOOSE x \in S :
                  \A y \in S : events[x].createdAt >= events[y].createdAt
       IN <<m>> \o NewestFirst(S \ {m})

\* .skip(n) and .limit(n) of a cursor
Skip(seq, n) == SubSeq(seq, n + 1, Len(seq))
Limit(seq, n) == SubSeq(seq, 1, IF n < Len(seq) THEN n ELSE Len(seq))

\* Math.ceil(a / b) for a >= 0 and b >= 1
Ceil(a, b) == (a + b - 1) \div b

\* getUserCreatedEvents(page, limit): null without a session and when the
\* connection or one of the two queries fails
getUserCreatedEvents(session, page, limit, dbOk, queryOk) ==
  LET user == requireAuth(session)
      totalEvents == Cardinality(CreatedBy(user))
  IN IF user = NoUser \/ ~dbOk \/ ~queryOk
     THEN [null |-> TRUE, events |-> <<>>, totalEvents |-> 0,
           totalPages |-> 0, currentPage |-> 0]
     ELSE [null |-> FALSE,
           events |-> Limit(Skip(NewestFirst(CreatedBy(user)),
                                 (page - 1) * limit), limit),
           totalEvents |-> totalEvents,
           totalPages |-> Ceil(totalEvents, limit),
           currentPage |-> page]

\* a call of getUserCreatedEvents
GetUserCreatedEvents ==
  /\ Ready
  /\ \E session \in Sessions, page \in 1..MaxPage, limit \in 1..MaxLimit,
        dbOk \in BOOLEAN, queryOk \in BOOLEAN :
       LET result == getUserCreatedEvents(session, page, limit, dbOk, queryOk)
       IN resp' = [IdleReq EXCEPT !.kind = "CREATED", !.pc = "done",
                     !.user = requireAuth(session),
                     !.page = page, !.limit = limit,
                     !.fault = ~(dbOk /\ queryOk),
                     !.res = IF result.null THEN "null" ELSE "",
                     !.list = result.events,
                     !.count = result.totalEvents,
                     !.pages = result.totalPages]
  /\ UNCHANGED <<events, bookings, uniqueIndex, images, nextId, nextImg, req,
                 started, called, firstResult, succeeded, dbvars>>

\* a store the handlers can have built: any of the Events 1..MaxCreated, each
\* with any creator and its own createdAt
InitCreated ==
  /\ \E S \in SUBSET (1..MaxCreated) :
       \E creator \in [S -> Users], at \in [S -> 1..MaxCreated] :
         /\ \A i, j \in S : at[i] = at[j] => i = j
         /\ events = [i \in S |->
                        [creatorId |-> creator[i], title |-> "Launch",
                         image |-> [folder |-> "Dev Event Platform",
                                    name |-> i],
                         createdAt |-> at[i]]]
  /\ bookings = <<>>
  /\ uniqueIndex = FALSE
  /\ images = {[folder |-> "Dev Event Platform", name |-> i] :
                 i \in 1..MaxCreated}
  /\ nextId = MaxCreated + 1
  /\ nextImg = MaxCreated + 1
  /\ req = EmptyBag
  /\ resp = IdleReq
  /\ started = 0
  /\ called = {}
  /\ firstResult = {}
  /\ succeeded = [e \in 0..MaxEvents |-> 0]
  /\ InitDb

\* the listing of the caller's own Events
NextCreated ==
  \/ GetUserCreatedEvents
  \/ Deliver

SpecCreated == InitCreated /\ [][NextCreated]_vars

\* ------------------------------------------------------ lib/mongodb.ts
\* what mongoose.connect resolves to: the mongoose module itself
Mongoose == "mongoose"
\* the client of the Mongoose connection: mongoose.connection.getClient()
MongooseClient == "mongoose.connection"
\* the client lib/auth.ts imports from ./db: a MongoClient of its own
AuthClient == "db"
CallKinds == {"connectDB", "getMongoClient"}

\* a caller invokes connectDB or getMongoClient; its synchronous part runs
\* when the jobs queued before it have run
Arrive ==
  /\ Len(calls) < MaxCalls
  /\ \E kind \in CallKinds :
       calls' = Append(calls, [kind |-> kind, attempt |-> 0, result |-> ""])
  /\ jobs' = Append(jobs, [type |-> "enter", caller |-> Len(calls) + 1,
                           attempt |-> 0])
  /\ UNCHANGED <<cache, attempts, waiters, clients, appvars>>

\* what a call of this kind returns once connectDB has returned conn
Returns(kind, conn) == IF kind = "getMongoClient" THEN MongooseClient ELSE conn

\* a connectDB that never finds a cached handle
HasConnNever(mongooseCache) == FALSE
\* if (mongooseCache.conn)
HasConn(mongooseCache) == mongooseCache.conn # NoConn

\* connectDB up to its await: the cached handle, or the cached promise, or
\* a new mongoose.connect whose promise is cached; then the await, which
\* queues the resumption at once when the promise has settled already
ConnectDB ==
  /\ jobs # <<>> /\ Head(jobs).type = "enter"
  /\ LET c == Head(jobs).caller
         fresh == cache.promise = 0
         a == IF fresh THEN Len(attempts) + 1 ELSE cache.promise
     IN IF HasConn(cache)
        THEN /\ calls' = [calls EXCEPT ![c].result =
                            Returns(calls[c].kind, cache.conn)]
             /\ jobs' = Tail(jobs)
             /\ UNCHANGED <<cache, attempts, waiters>>
        ELSE /\ fresh => Len(attempts) < MaxAttempts
             /\ attempts' = IF fresh THEN Append(attempts, "pending")
                            ELSE attempts
             /\ cache' = [cache EXCEPT !.promise = a]
             /\ calls' = [calls EXCEPT ![c].attempt = a]
             /\ IF attempts'[a] = "pending"
                THEN /\ waiters' = Append(waiters,
                                          [caller |-> c, attempt |-> a])
                     /\ jobs' = Tail(jobs)
                ELSE /\ jobs' = Append(Tail(jobs),
                                       [type |-> "resume", caller |-> c,
                                        attempt |-> a])
                     /\ UNCHANGED waiters
  /\ UNCHANGED <<clients, appvars>>

\* mongoose.connect(...).then(m => m) settles: the awaiting callers'
\* resumptions are queued in the order they began to await
Settle(a) ==
  /\ attempts[a] = "pending"
  /\ \E ok \in BOOLEAN :
       /\ attempts' = [attempts EXCEPT ![a] = IF ok THEN "ok" ELSE "failed"]
       /\ clients' = IF ok THEN clients \cup {MongooseClient} ELSE clients
  /\ LET On(w) == w.attempt = a
         Off(w) == w.attempt # a
         woken == SelectSeq(waiters, On)
     IN /\ jobs' = jobs \o [i \in 1..Len(woken) |->
                              [type |-> "resume", caller |-> woken[i].caller,
                               attempt |-> a]]
        /\ waiters' = SelectSeq(waiters, Off)
  /\ UNCHANGED <<cache, calls, appvars>>

\* a catch block that leaves the rejected promise cached
OnRejectedKeepsPromise(mongooseCache) == mongooseCache
\* catch (e) { mongooseCache.promise = null; throw e; }
OnRejected(mongooseCache) == [mongooseCache EXCEPT !.promise = 0]

\* connectDB from its await on: mongooseCache.conn = await promise and the
\* return, or the catch block
Resume ==
  /\ jobs # <<>> /\ Head(jobs).type = "resume"
  /\ LET c == Head(jobs).caller
         a == Head(jobs).attempt
     IN IF attempts[a] = "ok"
        THEN /\ cache' = [cache EXCEPT !.conn = Mongoose]
             /\ calls' = [calls EXCEPT ![c].result =
                            Returns(calls[c].kind, Mongoose)]
        ELSE /\ cache' = OnRejected(cache)
             /\ calls' = [calls EXCEPT ![c].result = "error"]
  /\ jobs' = Tail(jobs)
  /\ UNCHANGED <<attempts, waiters, clients, appvars>>

\* the auth component serves a request: better-auth reads and writes
\* through the client lib/auth.ts hands it
AuthUse ==
  /\ clients' = clients \cup {AuthClient}
  /\ AuthClient \notin clients
  /\ UNCHANGED <<cache, attempts, jobs, waiters, calls, appvars>>

\* the connection manager and its callers
NextConn ==
  \/ Arrive
  \/ ConnectDB
  \/ \E a \in 1..Len(attempts) : Settle(a)
  \/ Resume
  \/ AuthUse

SpecConn == Init /\ [][NextConn]_vars

\* the microtask queue drains and every connection attempt settles
SpecConnFair ==
  /\ SpecConn
  /\ WF_vars(ConnectDB)
  /\ WF_vars(Resume)
  /\ WF_vars(\E a \in 1..Len(attempts) : Settle(a))

\* the booking server actions
NextBooking ==
  \/ BookingFindOne
  \/ GetBookingCount
  \/ \E r \in InFlight : BookingPreSave(r)
  \/ \E r \in InFlight : BookingInsert(r)
  \/ Deliver

SpecBooking == InitBooking /\ [][NextBooking]_vars

\* createBooking alongside DELETE /api/events
NextBookingDelete ==
  \/ BookingFindOne
  \/ DeleteFindOneAndDelete
  \/ \E r \in InFlight : BookingPreSave(r)
  \/ \E r \in InFlight : BookingInsert(r)
  \/ \E r \in InFlight : FindById(r)
  \/ \E r \in InFlight : DeleteDestroy(r)
  \/ Deliver

SpecBookingDelete == InitBooking /\ [][NextBookingDelete]_vars

\* ================================================================ claims
HttpKinds == {"POST", "PUT", "DELETE"}
\* the Bookings the store holds for a pair
Count(p) ==
  Cardinality({i \in 1..Len(bookings) :
                 bookings[i] = [eventId |-> p[1], email |-> p[2]]})

\* C1: the store never holds two Booking records with the same
\* (eventId, email), whatever the interleaving of createBooking calls.
C1_NoDuplicateBooking ==
  \A i, j \in 1..Len(bookings) : i # j => bookings[i] # bookings[j]

\* C2: every Event that POST persists carries the creatorId of the session
\* user of the request that created it, whatever creatorId field the payload
\* carries.
C2_CreatorIsSessionUser ==
  [][\A id \in (DOMAIN events') \ (DOMAIN events) :
       /\ resp'.kind = "POST" /\ resp'.status = 201
       /\ resp' \notin InFlight
       /\ \E r \in InFlight :
            /\ r.kind = "POST" /\ r.pc = "create"
            /\ CopiesIn(r, req') < CopiesIn(r, req)
            /\ resp'.user = r.user
       /\ resp'.user \in Users
       /\ events'[id].creatorId = resp'.user]_vars
\* a POST whose payload named another user as creatorId has created an Event
C2_Witness ==
  /\ resp.kind = "POST" /\ resp.status = 201
  /\ resp.claimed \in Users /\ resp.claimed # resp.user
  /\ \E id \in DOMAIN events : events[id].creatorId = resp.user

\* C3: no request changes the creatorId of an existing Event.
C3_OwnerImmutable ==
  [][\A id \in (DOMAIN events) \cap (DOMAIN events') :
       events'[id].creatorId = events[id].creatorId]_vars

\* C4: a PUT whose ownership read meets an Event of another user (and whose
\* second read still finds the Event) returns 403 and has uploaded, written
\* and destroyed nothing.
C4_PutForeignForbidden ==
  (resp.kind = "PUT" /\ resp.seen1 = "foreign" /\ resp.seen2 # "absent")
    => (resp.status = 403 /\ resp.fx = {})
\* a PUT by a user who is not the owner has returned
C4_Witness ==
  /\ resp.kind = "PUT" /\ resp.seen1 = "foreign" /\ resp.seen2 = "foreign"
  /\ resp.status = 403

\* C5: a DELETE whose id matches no Event returns 404, a DELETE on another
\* user's Event (still there at the second read) returns 403, and neither
\* has written or destroyed anything.
C5_DeleteNotFoundOrForbidden ==
  resp.kind = "DELETE" =>
    /\ resp.seen1 = "absent" => (resp.status = 404 /\ resp.fx = {})
    /\ (resp.seen1 = "foreign" /\ resp.seen2 # "absent")
         => (resp.status = 403 /\ resp.fx = {})
\* a DELETE on a foreign Event has returned 403 while a DELETE that met no
\* Event is about to return
C5_Witness ==
  /\ resp.kind = "DELETE" /\ resp.seen1 = "foreign" /\ resp.status = 403
  /\ \E r \in InFlight :
       r.kind = "DELETE" /\ r.pc = "findById" /\ r.seen1 = "absent"

\* C6: a step changes or removes an existing Event only if it is the
\* conditional write of a PUT or DELETE whose session user is the record's
\* creatorId in the state the write is applied to: the PUT that answers in
\* that step, or the DELETE that goes on to destroy the image.
C6_WriteOnlyByCurrentOwner ==
  [][\A id \in DOMAIN events :
       (id \notin DOMAIN events' \/ events'[id] # events[id]) =>
         \/ /\ resp'.kind = "PUT" /\ "write" \in resp'.fx
            /\ resp'.id = id
            /\ resp'.user = events[id].creatorId
         \/ \E q \in BagToSet(req') :
              /\ q.kind = "DELETE" /\ q.pc = "destroy"
              /\ CopiesIn(q, req') > CopiesIn(q, req)
              /\ q.id = id
              /\ q.user = events[id].creatorId]_vars
\* a PUT that read its own Event found no record to update at the write
C6_Witness ==
  /\ resp.kind = "PUT" /\ resp.seen1 = "own" /\ resp.status = 200
  /\ "write" \notin resp.fx

\* C7: a POST, PUT or DELETE without a session user returns 401 at once and
\* has uploaded, written and destroyed nothing.
C7_NoSessionUnauthorized ==
  /\ (resp.kind \in HttpKinds /\ resp.user = NoUser)
       => (resp.status = 401 /\ resp.fx = {})
  /\ \A r \in InFlight :
       (r.kind \in HttpKinds /\ r.pc # "destroyOld") => r.user # NoUser
\* a handler has answered 401 to a caller without a session user
C7_Witness ==
  resp.kind \in HttpKinds /\ resp.user = NoUser /\ resp.status = 401

\* C8: createBooking without a session user returns at once, with
\* success = false and requiresAuth = true, and inserts nothing;
\* requiresAuth is true in no other result.
C8_RequiresAuthIffNoSession ==
  /\ resp.kind = "BOOK" =>
       /\ BookingResult(resp.res).requiresAuth <=> resp.user = NoUser
       /\ resp.user = NoUser =>
            (~BookingResult(resp.res).success /\ resp.fx = {})
  /\ \A r \in InFlight : r.kind = "BOOK" => r.user # NoUser
\* a createBooking call without a session user has returned
C8_Witness ==
  /\ resp.kind = "BOOK" /\ resp.user = NoUser
  /\ BookingResult(resp.res).requiresAuth

C10_DuplicateRejectionIsAlreadyBooked ==
  (resp.kind = "BOOK" /\ resp.seen2 = "duplicate") =>
    BookingResult(resp.res).message = "You have already booked this event"

\* C11: when the store answers, getBookingCount(eventId) returns exactly the
\* number of persisted Bookings with that eventId, which is the number of
\* createBooking calls that returned success for that event: 0 before any,
\* 1 after one, and never a booking of another event.
C11_CountIsBookingsOfEvent ==
  (resp.kind = "COUNT" /\ ~resp.fault) =>
    /\ resp.count = succeeded[resp.id]
    /\ resp.count
         = Cardinality({i \in 1..Len(bookings) : bookings[i].eventId = resp.id})
\* the count of an event with one booking has returned 1 while another
\* event has a booking too
C11_Witness ==
  /\ resp.kind = "COUNT" /\ ~resp.fault /\ resp.count = 1
  /\ \E i \in 1..Len(bookings) : bookings[i].eventId # resp.id
  /\ \E t \in firstResult : t[1] = resp.id /\ t[3] = "success"

\* C12: getBookingCount never throws and never returns a negative number;
\* when connectDB or the count query fails it returns 0; a call changes
\* neither collection.
C12_CountNeverFails ==
  [][resp'.kind = "COUNT" =>
       /\ resp'.res # "threw"
       /\ resp'.count >= 0
       /\ resp'.fault => resp'.count = 0
       /\ events' = events /\ bookings' = bookings]_vars
\* a count call whose connection or query failed has returned, on a store
\* that holds a booking of the event
C12_Witness ==
  /\ resp.kind = "COUNT" /\ resp.fault /\ resp.count = 0
  /\ \E i \in 1..Len(bookings) : bookings[i].eventId = resp.id

\* C13: getSimilarEventsBySlug returns an empty sequence, and does not
\* throw, when no Event has the slug or when connectDB or a query fails.
C13_SimilarEmptyWhenMissing ==
  (resp.kind = "SIMILAR" /\ (resp.seen1 = "absent" \/ resp.fault))
    => resp.list = <<>>

\* C14: at most one mongoose.connect attempt is in flight at any time,
\* under every interleaving of connectDB calls.
C14_OneAttemptInFlight ==
  Cardinality({a \in 1..Len(attempts) : attempts[a] = "pending"}) <= 1

\* every caller that awaited attempt a has run its resumption
Observed(a) ==
  /\ \A i \in 1..Len(waiters) : waiters[i].attempt # a
  /\ \A i \in 1..Len(jobs) : jobs[i].attempt # a

\* the state of the attempt caller c awaits, and what the call returned
AttemptOf(c) ==
  IF c \in 1..Len(calls) /\ calls[c].attempt \in 1..Len(attempts)
  THEN attempts[calls[c].attempt] ELSE "none"
ResultOf(c) == IF c \in 1..Len(calls) THEN calls[c].result ELSE ""

\* C15: when an attempt fails, every caller that awaited it gets the error;
\* once they have, the failed promise is no longer cached; a handle is cached
\* only after an attempt that succeeded.
C15_FailureObserved ==
  /\ \A c \in 1..Len(calls) :
       (/\ calls[c].attempt # 0
        /\ attempts[calls[c].attempt] = "failed"
        /\ calls[c].result # "") => calls[c].result = "error"
  /\ \A a \in 1..Len(attempts) :
       (attempts[a] = "failed" /\ Observed(a)) => cache.promise # a
  /\ cache.conn # NoConn => \E a \in 1..Len(attempts) : attempts[a] = "ok"

\* C15: a call that enters connectDB after every failure has been observed
\* never awaits a failed attempt: it awaits a new one or the one in flight.
C15_LaterCallRetries ==
  \A c \in 1..Len(calls) :
    (/\ calls[c].attempt = 0
     /\ calls'[c].attempt # 0
     /\ \A a \in 1..Len(attempts) : attempts[a] = "failed" => Observed(a))
    => attempts'[calls'[c].attempt] # "failed"

\* C15: a caller that awaits an attempt that succeeded eventually obtains a
\* handle that is not null.
C15_EventuallyHandle ==
  \A c \in 1..MaxCalls :
    (AttemptOf(c) = "ok")
    ~> (ResultOf(c) \in {Mongoose, MongooseClient} /\ cache.conn = Mongoose)

\* C15: a failed attempt is reported to its callers and discarded, later
\* calls retry, and a caller of a successful attempt obtains the handle.
C15_FailedAttemptDiscarded ==
  /\ []C15_FailureObserved
  /\ [][C15_LaterCallRetries]_vars
  /\ C15_EventuallyHandle

\* C15: two callers got the error of the same failed attempt, the promise
\* was cleared, and a later caller obtained the handle from a new attempt.
C15_Witness ==
  /\ \E c1, c2 \in 1..Len(calls) :
       /\ c1 # c2
       /\ calls[c1].attempt # 0
       /\ calls[c1].attempt = calls[c2].attempt
       /\ attempts[calls[c1].attempt] = "failed"
       /\ calls[c1].result = "error" /\ calls[c2].result = "error"
  /\ \E c3 \in 1..Len(calls) :
       /\ calls[c3].attempt > 1
       /\ attempts[calls[c3].attempt] = "ok"
       /\ calls[c3].result = Mongoose
  /\ cache.conn = Mongoose

\* C16: once a handle is cached it stays cached, mongoose.connect is not
\* called again, and a connectDB call that enters afterwards returns the
\* cached handle without awaiting any attempt.
C16_CachedHandleReused ==
  [][cache.conn # NoConn =>
       /\ cache'.conn = cache.conn
       /\ Len(attempts') = Len(attempts)
       /\ \A c \in 1..Len(calls) :
            (/\ calls[c].kind = "connectDB"
             /\ calls[c].attempt = 0
             /\ calls'[c] # calls[c])
            => (calls'[c].result = cache.conn /\ calls'[c].attempt = 0)]_vars

\* C16: after a successful attempt two later connectDB calls returned the
\* cached handle and the one attempt is still the only one.
C16_Witness ==
  /\ cache.conn = Mongoose
  /\ Len(attempts) = 1
  /\ \E c1, c2 \in 1..Len(calls) :
       /\ c1 # c2
       /\ calls[c1].kind = "connectDB" /\ calls[c2].kind = "connectDB"
       /\ calls[c1].attempt = 0 /\ calls[c2].attempt = 0
       /\ calls[c1].result = Mongoose /\ calls[c2].result = Mongoose

\* C17: the process holds at most one connection pool, whatever connectDB,
\* getMongoClient and the auth component have done.
C17_OnePool == Cardinality(clients) <= 1

\* C18: a DELETE that removed the record and whose image deletion then
\* failed still answers 200, and the record stays deleted.
C18_ImageFailureNotFatal ==
  (resp.kind = "DELETE" /\ "write" \in resp.fx /\ resp.fault) =>
    (resp.status = 200 /\ ~Exists(resp.id))

\* the number of Events of user that are newer than Event id
NewerOf(user, id) ==
  Cardinality({o \in DOMAIN events :
                 /\ events[o].creatorId = user
                 /\ events[o].createdAt > events[id].createdAt})

\* C19: getUserCreatedEvents(p, L) of user u, when the store answers, returns
\* at place k the Event of u that has (p-1)*L + k - 1 newer Events of u, for
\* every such place up to L; totalEvents is the number of Events of u and
\* totalPages the least number of pages of L that hold them; without a
\* session it returns null.
C19_OwnPageNewestFirst ==
  resp.kind = "CREATED" =>
    LET own == {id \in DOMAIN events : events[id].creatorId = resp.user}
        first == (resp.page - 1) * resp.limit
    IN /\ resp.user = NoUser => resp.res = "null"
       /\ (resp.user # NoUser /\ ~resp.fault) =>
            /\ resp.res = ""
            /\ \A k \in 1..Len(resp.list) :
                 /\ resp.list[k] \in own
                 /\ NewerOf(resp.user, resp.list[k]) = first + k - 1
            /\ \A k \in 1..resp.limit :
                 first + k <= Cardinality(own) => k <= Len(resp.list)
            /\ Len(resp.list) <= resp.limit
            /\ resp.count = Cardinality(own)
            /\ resp.pages * resp.limit >= resp.count
            /\ resp.pages >= 0
            /\ resp.pages > 0 => (resp.pages - 1) * resp.limit < resp.count

\* C19: a second page that holds the caller's oldest Event, in a store where
\* a newer Event of another user exists.
C19_Witness ==
  /\ resp.kind = "CREATED" /\ resp.user = "u1" /\ ~resp.fault
  /\ resp.page = 2 /\ resp.limit = 1 /\ Len(resp.list) = 1
  /\ resp.count = 2 /\ resp.pages = 2
  /\ \E o \in DOMAIN events :
       /\ events[o].creatorId = "u2"
       /\ events[o].createdAt > events[resp.list[1]].createdAt

\* C20: a POST whose document the Event schema rejects is answered with
\* status 400 and persists no Event.
C20_InvalidCreateIs400 ==
  (resp.kind = "POST" /\ resp.seen1 = "invalid") =>
    (resp.status = 400 /\ "write" \notin resp.fx)
\* C21: a Booking is inserted only while the Event its eventId names is in
\* the store.
C21_NoOrphanInsert ==
  [][Len(bookings') > Len(bookings) =>
       Exists(bookings'[Len(bookings')].eventId)]_vars
\* C27: a createBooking whose event-existence check timed out or failed
\* never reaches the insert: it returns success = false with requiresAuth =
\* false and has inserted nothing.
C27_FailedCheckIsFailure ==
  /\ (resp.kind = "BOOK" /\ resp.fault) =>
       /\ ~BookingResult(resp.res).success
       /\ ~BookingResult(resp.res).requiresAuth
       /\ resp.fx = {}
  /\ \A r \in InFlight : (r.kind = "BOOK" /\ r.fault) => r.pc # "insert"

\* C27: the check of a Booking for an Event that exists did not answer and
\* the call has returned its failure.
C27_Witness ==
  /\ resp.kind = "BOOK" /\ resp.seen1 = "error" /\ resp.fault
  /\ Exists(resp.id)
  /\ resp.res = "failed"
\* C22: a POST with a document the schema accepts, whose title is the title
\* of an Event in the store, is answered with status 201.
C22_SameTitleCreates ==
  (resp.kind = "POST" /\ resp.seen1 = "slugTaken") => resp.status = 201
\* C23: createEventAction without a session returns 'Unauthorized' and
\* persists nothing, and an Event it persists carries the session user's id
\* as creatorId.
C23_ActionNeedsOwner ==
  resp.kind = "ACTION" =>
    /\ resp.user = NoUser => (resp.res = "Unauthorized" /\ resp.fx = {})
    /\ "write" \in resp.fx =>
         (resp.user # NoUser /\ events[resp.id].creatorId = resp.user)
\* C24: POST calls Event.create only after its upload has completed: a POST
\* that is about to create has uploaded its image, and a POST whose upload
\* failed answers 500 and has persisted nothing; every Event a POST creates
\* refers to the image that request uploaded before.
C24_UploadBeforeCreate ==
  /\ \A r \in InFlight :
       (r.kind = "POST" /\ r.pc = "create") =>
         (~r.fault /\ "upload" \in r.fx /\ r.new.name < nextImg)
  /\ (resp.kind = "POST" /\ resp.fault) =>
       (resp.status = 500 /\ "write" \notin resp.fx)
  /\ (resp.kind = "POST" /\ "write" \in resp.fx) =>
       ("upload" \in resp.fx /\ resp.new.name < nextImg)

\* C24: the upload of a POST with an image file failed and the request has
\* answered 500.
C24_Witness ==
  /\ resp.kind = "POST" /\ resp.file = "image" /\ resp.fault
  /\ resp.status = 500
  /\ resp.fx = {}
\* C25: PUT removes the previous image from the image store only when its
\* conditional update has updated the record.
C25_DestroyOnlyAfterUpdate ==
  [][\A r \in InFlight :
       (/\ r.kind = "PUT" /\ r.pc = "destroyOld"
        /\ CopiesIn(r, req') < CopiesIn(r, req)
        /\ images' # images) => "write" \in r.fx]_vars
C28_SuccessMeansUpdated ==
  (resp.kind = "PUT" /\ resp.status = 200) =>
    ("write" \in resp.fx /\ Exists(resp.id))
\* C29: the image every stored Event refers to is in the image store.
C29_ReferencedImageStored ==
  \A id \in DOMAIN events : events[id].image \in images
\* C30: a DELETE that removed the record and whose destroy succeeded has
\* removed the record's image from the image store.
C30_DestroyRemovesStoredImage ==
  (resp.kind = "DELETE" /\ resp.status = 200 /\ "destroy" \in resp.fx)
    => resp.old \notin images
====
